---- MODULE Spec2Model ----
(***************************************************************************)
(* Model of the Anki MCP server of src/src/index.ts: the ankiRequest       *)
(* request pipeline (retry loop, interpretation of the AnkiConnect         *)
(* envelope), the five tool handlers, the resource handlers and the card   *)
(* projection.                                                             *)
(*                                                                         *)
(* JavaScript values are tagged records: t is the type, v the payload.     *)
(* A handler runs synchronously up to its next await; the suspension       *)
(* points are the HTTP round trip and the backoff timer of ankiRequest.    *)
(***************************************************************************)
EXTENDS Integers, Sequences, FiniteSets, TLC

(* ------------------------------------------------------------------ *)
(* Bounds of the model                                                 *)
(* ------------------------------------------------------------------ *)

\* largest retry count a direct ankiRequest call is given
MaxRetries == 3

\* largest number of note ids a findNotes query returns
MaxNotes == 12

\* number of operations whose handlers are interleaved
MaxOps == 2

(* ------------------------------------------------------------------ *)
(* JavaScript values                                                   *)
(* ------------------------------------------------------------------ *)

Undefined == [t |-> "undefined"]

Null == [t |-> "null"]

Str(s) == [t |-> "string", v |-> s]

Num(n) == [t |-> "number", v |-> n]

Arr(a) == [t |-> "array", v |-> a]

Obj(o) == [t |-> "object", v |-> o]

\* {} : an object without own properties
EmptyObject == [t |-> "object", v |-> <<>>]

\* ToBoolean, as applied by `if (x)` and `a || b`
Truthy(x) ==
  CASE x.t \in {"undefined", "null"} -> FALSE
    [] x.t = "string" -> x.v # ""
    [] x.t = "number" -> x.v # 0
    [] OTHER -> TRUE

\* String.prototype.includes
Includes(s, pat) ==
  \E i \in 1..(Len(s) - Len(pat) + 1) : SubSeq(s, i, i + Len(pat) - 1) = pat

RECURSIVE Join(_, _)
\* Array.prototype.join on an array of strings
Join(a, sep) ==
  IF a = <<>> THEN ""
  ELSE IF Len(a) = 1 THEN a[1].v
  ELSE a[1].v \o sep \o Join(Tail(a), sep)

\* Array.prototype.slice(from, to) with 0-based, end-exclusive indices
Slice(a, from, to) ==
  SubSeq(a, from + 1, IF to < Len(a) THEN to ELSE Len(a))

(* ------------------------------------------------------------------ *)
(* The backend: notes, and the responses an attempt can receive        *)
(* ------------------------------------------------------------------ *)

Actions ==
  {"createDeck", "addNote", "cardsToNotes", "notesInfo",
   "updateNoteFields", "replaceTags", "deckNames", "findNotes"}

\* The raw note record the backend holds for a note id.  Ids cycle through
\* the schemas: Basic, Cloze with extra text, Cloze with empty extra, another
\* model; id 0 is a Cloze note of the older schema, without "Back Extra".
NoteOf(id) ==
  LET n == ToString(id) IN
  CASE id = 0 ->
         [noteId |-> id, modelName |-> "Cloze",
          fields |-> [f \in {"Text", "Extra"} |->
                        IF f = "Text" THEN "{{c1::old}}" ELSE "hint"],
          cards |-> <<5, 6>>, tags |-> <<"old">>]
    [] id % 4 = 1 ->
         [noteId |-> id, modelName |-> "Basic",
          fields |-> [f \in {"Front", "Back"} |->
                        IF f = "Front" THEN "front" \o n ELSE "back" \o n],
          cards |-> <<10 * id + 1>>, tags |-> <<"b", "a">>]
    [] id % 4 = 2 ->
         [noteId |-> id, modelName |-> "Cloze",
          fields |-> [f \in {"Text", "Back Extra"} |->
                        IF f = "Text" THEN "{{c1::t" \o n \o "}}"
                        ELSE "extra" \o n],
          cards |-> <<10 * id + 1, 10 * id + 2>>, tags |-> <<>>]
    [] id % 4 = 3 ->
         [noteId |-> id, modelName |-> "Cloze",
          fields |-> [f \in {"Text", "Back Extra"} |->
                        IF f = "Text" THEN "{{c1::t" \o n \o "}}" ELSE ""],
          cards |-> <<10 * id + 1>>, tags |-> <<"c">>]
    [] OTHER ->
         [noteId |-> id, modelName |-> "Image Occlusion",
          fields |-> [f \in {"Image"} |-> "img" \o n],
          cards |-> <<10 * id + 1>>, tags |-> <<"o">>]

\* the note ids of a deck of n notes, in the order findNotes reports them:
\* descending, and with the old-schema note last when legacy is set
DeckNoteIds(n, legacy) ==
  [k \in 1..n |-> IF legacy /\ k = n THEN 0 ELSE n + 1 - k]

\* the records notesInfo returns for a list of note ids
Records(ids) == [k \in 1..Len(ids) |-> NoteOf(ids[k])]

\* The non-null result values the backend can put in the envelope of an
\* action.  notesInfo answers with one record per requested id, or with the
\* last record missing.
ResultsFor(action, params) ==
  CASE action = "createDeck" -> {Num(1)}
    [] action = "addNote" -> {Num(1)}
    [] action = "cardsToNotes" ->
         {Arr(<<>>)} \cup {Arr(<<id>>) : id \in 0..2}
    [] action = "notesInfo" ->
         {Arr(Records(params.notes))}
           \cup (IF params.notes = <<>> THEN {}
                 ELSE {Arr(Records(SubSeq(params.notes, 1,
                                          Len(params.notes) - 1)))})
    [] action = "deckNames" -> {Arr(<<>>), Arr(<<"Default", "My Deck">>)}
    [] action = "findNotes" ->
         {Arr(DeckNoteIds(n, legacy)) : n \in 0..MaxNotes,
                                        legacy \in BOOLEAN}
    [] OTHER -> {Num(1)}

\* the parsed bodies of an HTTP response: not JSON, the JSON literal null,
\* or an envelope {result, error}
Bodies(action, params) ==
  {[json |-> "invalid"], [json |-> "null"]}
    \cup {[json |-> "object", error |-> e, result |-> r] :
            e \in {Null, Str(""), Str("deck exists")},
            r \in {Null, Undefined} \cup ResultsFor(action, params)}

\* what one attempt can end in: an 'error' event on the request, or a
\* response with a status and a body
Responses(action, params) ==
  {[kind |-> "error", code |-> c] : c \in {"ECONNREFUSED", "ECONNRESET"}}
    \cup {[kind |-> "response", status |-> 200, body |-> b] :
            b \in Bodies(action, params)}
    \cup {[kind |-> "response", status |-> 500, body |-> b] :
            b \in {[json |-> "invalid"],
                   [json |-> "object", error |-> Str("deck exists"),
                    result |-> Null]}}

NoResponse == [kind |-> "none"]

(* ------------------------------------------------------------------ *)
(* ankiRequest                                                         *)
(* ------------------------------------------------------------------ *)

DefaultRetries == 3

DefaultDelay == 1000

\* variant: replaceTags is left out of the actions that return null
NullOnSuccessActions_FieldsOnly == {"updateNoteFields"}

NullOnSuccessActions == {"updateNoteFields", "replaceTags"}

NoError == [e |-> "none"]

\* req.on("error"): the error of the socket
SocketError(code) == [e |-> "socket", code |-> code]

\* `AnkiConnect request failed with status ${res.statusCode}: ${responseData}`
StatusError(status, body) == [e |-> "status", status |-> status, body |-> body]

\* `Failed to parse AnkiConnect response: ${responseData}`
ParseError(body) == [e |-> "parse", body |-> body]

\* `AnkiConnect error: ${parsedData.error}`
BackendError(msg) == [e |-> "anki", message |-> msg]

\* "AnkiConnect returned null/undefined result"
NullResultError == [e |-> "nullResult"]

\* `Failed after ${retries} attempts`
ExhaustedError(retries) == [e |-> "exhausted", retries |-> retries]

Resolve(value) == [ok |-> TRUE, value |-> value, error |-> NoError]

Reject(error) == [ok |-> FALSE, value |-> Undefined, error |-> error]

\* variant: the promise resolves with the whole envelope, not its result
Settle_WholeEnvelope(action, resp) ==
  IF resp.kind = "error" THEN Reject(SocketError(resp.code))
  ELSE IF resp.status # 200 THEN Reject(StatusError(resp.status, resp.body))
  ELSE IF resp.body.json # "object" THEN Reject(ParseError(resp.body))
  ELSE IF Truthy(resp.body.error) THEN Reject(BackendError(resp.body.error.v))
  ELSE IF resp.body.result.t \in {"null", "undefined"}
       THEN IF action \in NullOnSuccessActions
            THEN Resolve(EmptyObject)
            ELSE Reject(NullResultError)
  ELSE Resolve(Obj(resp.body))

\* The promise of one attempt: how the response settles it.
\* Reading .error of the parsed literal null raises inside the try block,
\* which the catch turns into the parse error.
Settle(action, resp) ==
  IF resp.kind = "error" THEN Reject(SocketError(resp.code))
  ELSE IF resp.status # 200 THEN Reject(StatusError(resp.status, resp.body))
  ELSE IF resp.body.json # "object" THEN Reject(ParseError(resp.body))
  ELSE IF Truthy(resp.body.error) THEN Reject(BackendError(resp.body.error.v))
  ELSE IF resp.body.result.t \in {"null", "undefined"}
       THEN IF action \in NullOnSuccessActions
            THEN Resolve(EmptyObject)
            ELSE Reject(NullResultError)
  ELSE Resolve(resp.body.result)

\* no ankiRequest call has been made
NoCall ==
  [action |-> "", params |-> <<>>, retries |-> 0, base |-> 0, delay |-> 0,
   attempt |-> 0, phase |-> "none", value |-> Undefined, error |-> NoError,
   last |-> NoResponse, waits |-> <<>>, seen |-> {}]

\* variant: the loop counts from 0
StartCall_FromZero(action, params, retries, delay) ==
  [action |-> action, params |-> params, retries |-> retries,
   base |-> delay, delay |-> delay, attempt |-> 0, phase |-> "inflight",
   value |-> Undefined, error |-> NoError, last |-> NoResponse,
   waits |-> <<>>, seen |-> {}]

\* ankiRequest(action, params, retries, delay) up to its first await: the
\* loop is entered and the POST of attempt 1 is written.
\* base, last, waits and seen are history: the delay the call was given, the
\* response of the latest attempt, the delays waited so far and the kinds of
\* response the failed attempts received.
StartCall(action, params, retries, delay) ==
  IF 1 <= retries
  THEN [action |-> action, params |-> params, retries |-> retries,
        base |-> delay, delay |-> delay, attempt |-> 1, phase |-> "inflight",
        value |-> Undefined, error |-> NoError, last |-> NoResponse,
        waits |-> <<>>, seen |-> {}]
  ELSE [action |-> action, params |-> params, retries |-> retries,
        base |-> delay, delay |-> delay, attempt |-> 0, phase |-> "thrown",
        value |-> Undefined, error |-> ExhaustedError(retries),
        last |-> NoResponse, waits |-> <<>>, seen |-> {}]

\* what kind of response an attempt received
ResponseKind(resp) ==
  IF resp.kind = "error" THEN "connection"
  ELSE IF resp.status # 200 THEN "status"
  ELSE IF resp.body.json # "object" THEN "unparseable"
  ELSE IF resp.body.error # Null THEN "backendError"
  ELSE IF resp.body.result.t \in {"null", "undefined"} THEN "nullResult"
  ELSE "result"

\* variant: a failed attempt is followed at once by the next one, without
\* the backoff wait
OnResponse_EagerRetry(c, resp) ==
  LET s == Settle(c.action, resp) IN
  IF s.ok
  THEN [c EXCEPT !.phase = "returned", !.value = s.value, !.last = resp]
  ELSE IF c.attempt = c.retries
  THEN [c EXCEPT !.phase = "thrown", !.error = s.error, !.last = resp,
                 !.seen = @ \cup {ResponseKind(resp)}]
  ELSE [c EXCEPT !.phase = "inflight", !.error = s.error, !.last = resp,
                 !.seen = @ \cup {ResponseKind(resp)},
                 !.attempt = c.attempt + 1, !.delay = 2 * c.delay]

\* The response of the attempt in flight arrives: the attempt's promise
\* settles, the call returns its value, or the catch block rethrows on the
\* last attempt and otherwise starts the backoff timer.
OnResponse(c, resp) ==
  LET s == Settle(c.action, resp) IN
  IF s.ok
  THEN [c EXCEPT !.phase = "returned", !.value = s.value, !.last = resp]
  ELSE IF c.attempt = c.retries
  THEN [c EXCEPT !.phase = "thrown", !.error = s.error, !.last = resp,
                 !.seen = @ \cup {ResponseKind(resp)}]
  ELSE [c EXCEPT !.phase = "backoff", !.error = s.error, !.last = resp,
                 !.seen = @ \cup {ResponseKind(resp)},
                 !.waits = Append(@, c.delay)]

\* variant: the delay is not doubled
OnTimer_SameDelay(c) ==
  [c EXCEPT !.attempt = c.attempt + 1, !.phase = "inflight"]

\* The backoff timer fires: the delay doubles, the loop increments attempt
\* and the next POST is written.
OnTimer(c) ==
  [c EXCEPT !.delay = 2 * c.delay, !.attempt = c.attempt + 1,
            !.phase = "inflight"]

(* ------------------------------------------------------------------ *)
(* Argument schemas (zod)                                              *)
(* ------------------------------------------------------------------ *)

\* variant: z.string().min(1) without the minimum length
Accepts_NoMinLength(type, x) ==
  CASE type = "string" -> x.t = "string"
    [] type = "string.min(1)" -> x.t = "string"
    [] type = "number" -> x.t = "number"
    [] type = "string?" -> x = Undefined \/ x.t = "string"
    [] type = "string[]?" ->
         \/ x = Undefined
         \/ x.t = "array" /\ \A k \in 1..Len(x.v) : x.v[k].t = "string"

\* does a value pass a zod type:  z.string(), z.string().min(1),
\* z.number(), z.array(z.string()), and their .optional() forms
Accepts(type, x) ==
  CASE type = "string" -> x.t = "string"
    [] type = "string.min(1)" -> x.t = "string" /\ Len(x.v) >= 1
    [] type = "number" -> x.t = "number"
    [] type = "string?" -> x = Undefined \/ x.t = "string"
    [] type = "string[]?" ->
         \/ x = Undefined
         \/ x.t = "array" /\ \A k \in 1..Len(x.v) : x.v[k].t = "string"

CreateDeckArgumentsSchema == [name |-> "string.min(1)"]

CreateCardArgumentsSchema ==
  [deckName |-> "string", front |-> "string", back |-> "string",
   tags |-> "string[]?"]

CreateClozeCardArgumentsSchema ==
  [deckName |-> "string", text |-> "string", backExtra |-> "string?",
   tags |-> "string[]?"]

UpdateCardArgumentsSchema ==
  [cardId |-> "number", front |-> "string?", back |-> "string?",
   tags |-> "string[]?"]

UpdateClozeCardArgumentsSchema ==
  [cardId |-> "number", text |-> "string?", backExtra |-> "string?",
   tags |-> "string[]?"]

Tools ==
  {"create-deck", "create-card", "update-card", "create-cloze-card",
   "update-cloze-card"}

SchemaOf(name) ==
  CASE name = "create-deck" -> CreateDeckArgumentsSchema
    [] name = "create-card" -> CreateCardArgumentsSchema
    [] name = "update-card" -> UpdateCardArgumentsSchema
    [] name = "create-cloze-card" -> CreateClozeCardArgumentsSchema
    [] name = "update-cloze-card" -> UpdateClozeCardArgumentsSchema

\* schema.parse(args): the paths of the issues zod collects
Issues(schema, a) == {f \in DOMAIN schema : ~Accepts(schema[f], a[f])}

\* The input shapes the ListToolsRequestSchema handler declares: the JSON
\* type of each property and the required properties of each tool.
DeclaredType(property) ==
  CASE property = "cardId" -> "number"
    [] property = "tags" -> "array"
    [] OTHER -> "string"

DeclaredRequired(name) ==
  CASE name = "create-deck" -> {"name"}
    [] name = "create-card" -> {"deckName", "front", "back"}
    [] name = "create-cloze-card" -> {"deckName", "text"}
    [] OTHER -> {"cardId"}

(* ------------------------------------------------------------------ *)
(* Inputs of the operations                                            *)
(* ------------------------------------------------------------------ *)

DeckNameInputs == {Undefined, Num(7), Str(""), Str("d")}

SideInputs == {Undefined, Num(7), Str(""), Str("f")}

TextInputs ==
  {Undefined, Num(7), Str(""), Str("Paris"), Str("{{c1::Paris}}"),
   Str("{{c1::Paris"), Str("Paris}}"), Str("}} {{c")}

TagInputs ==
  {Undefined, Str("t"), Arr(<<>>), Arr(<<Str("a"), Str("b")>>),
   Arr(<<Num(1)>>)}

CardIdInputs == {Undefined, Str("1"), Num(1)}

ArgsOf(name) ==
  CASE name = "create-deck" -> [name : DeckNameInputs]
    [] name = "create-card" ->
         [deckName : {Undefined, Str("d")}, front : SideInputs,
          back : {Undefined, Str("b")}, tags : TagInputs]
    [] name = "update-card" ->
         [cardId : CardIdInputs, front : SideInputs,
          back : {Undefined, Str(""), Str("b")}, tags : TagInputs]
    [] name = "create-cloze-card" ->
         [deckName : {Undefined, Str("d")}, text : TextInputs,
          backExtra : SideInputs, tags : TagInputs]
    [] name = "update-cloze-card" ->
         [cardId : CardIdInputs, text : TextInputs,
          backExtra : SideInputs, tags : TagInputs]
    [] OTHER -> {<<>>}

ResourceUris ==
  {"anki://deck/Default", "anki://deck/My%20Deck", "anki://deck/%",
   "anki://deck/", "anki://card/1"}

(* ------------------------------------------------------------------ *)
(* Errors and results of the handlers                                  *)
(* ------------------------------------------------------------------ *)

\* `Invalid arguments: ${path}: ${message}, ...`
ValidationError(paths) == [e |-> "invalidArguments", paths |-> paths]

\* "Text must contain at least one cloze deletion using {{c1::text}} syntax"
ClozeSyntaxError == [e |-> "clozeSyntax"]

\* `No note found for card ${cardId}`
NoNoteError(cardId) == [e |-> "noNote", cardId |-> cardId]

\* "This card is not a cloze deletion card"
NotClozeError == [e |-> "notCloze"]

\* `Unknown tool: ${name}`
UnknownToolError(name) == [e |-> "unknownTool", name |-> name]

\* the TypeError of reading a property of undefined
TypeError(property) == [e |-> "TypeError", property |-> property]

\* `Invalid resource URI: ${uri}`
InvalidUriError(uri) == [e |-> "invalidUri", uri |-> uri]

\* the URIError of decodeURIComponent
URIError == [e |-> "URIError"]

\* `Failed to read deck: ${error.message}. Make sure Anki is running and
\* AnkiConnect plugin is installed.`
ReadDeckError(cause) == [e |-> "readDeck", cause |-> cause]

NoOutcome == [status |-> "none", value |-> Undefined, error |-> NoError]

Returned(value) == [status |-> "ok", value |-> value, error |-> NoError]

Thrown(error) == [status |-> "error", value |-> Undefined, error |-> error]

\* what a handler does at the end of a synchronous stretch: it awaits a new
\* ankiRequest call, or it finishes
AwaitCall(action, params, at) ==
  [do |-> "await", action |-> action, params |-> params, at |-> at,
   outcome |-> NoOutcome]

Finish(outcome) ==
  [do |-> "finish", action |-> "", params |-> <<>>, at |-> "done",
   outcome |-> outcome]

(* ------------------------------------------------------------------ *)
(* Tool handlers                                                       *)
(* ------------------------------------------------------------------ *)

\* variant: only the opening marker is looked for
HasClozeSyntax_OpeningOnly(text) == Includes(text, "{{c")

\* the cloze check of create-cloze-card and update-cloze-card
HasClozeSyntax(text) == Includes(text, "{{c") /\ Includes(text, "}}")

\* `tags = []` and `backExtra = ""` in the destructuring patterns
OrDefault(x, default) == IF x = Undefined THEN default ELSE x

\* the fields object built from the inputs that are to be written
FieldsObject(names, input) == [f \in names |-> input[f].v]

\* CallToolRequestSchema handler, from its entry to its first await
ToolEntry(name, a) ==
  IF name \notin Tools THEN Finish(Thrown(UnknownToolError(name)))
  ELSE IF Issues(SchemaOf(name), a) # {}
       THEN Finish(Thrown(ValidationError(Issues(SchemaOf(name), a))))
  ELSE CASE name = "create-deck" ->
              AwaitCall("createDeck", [deck |-> a.name.v], "createDeck")
         [] name = "create-card" ->
              AwaitCall("addNote",
                        [note |-> [deckName |-> a.deckName.v,
                                   modelName |-> "Basic",
                                   fields |-> [Front |-> a.front.v,
                                               Back |-> a.back.v],
                                   tags |-> OrDefault(a.tags, Arr(<<>>)).v]],
                        "addNote")
         [] name = "create-cloze-card" ->
              IF ~HasClozeSyntax(a.text.v)
              THEN Finish(Thrown(ClozeSyntaxError))
              ELSE AwaitCall("addNote",
                        [note |-> [deckName |-> a.deckName.v,
                                   modelName |-> "Cloze",
                                   fields |-> [Text |-> a.text.v,
                                               Back |-> OrDefault(a.backExtra,
                                                                  Str("")).v],
                                   tags |-> OrDefault(a.tags, Arr(<<>>)).v]],
                        "addNote")
         [] OTHER ->
              AwaitCall("cardsToNotes", [cards |-> <<a.cardId.v>>],
                        "cardsToNotes")

\* `if (tags) { await ankiRequest("replaceTags", ...) }`, then the success
\* message
TagsStep(a, noteId) ==
  IF Truthy(a.tags)
  THEN AwaitCall("replaceTags",
                 [notes |-> <<noteId>>, tags |-> Join(a.tags.v, " ")],
                 "replaceTags")
  ELSE Finish(Returned(Str("updated")))

\* variant: update-card writes the tags first, and the fields only when no
\* tags were given
UpdateCardFieldsStep_TagsFirst(a, noteId) ==
  IF Truthy(a.tags) THEN TagsStep(a, noteId)
  ELSE IF Truthy(a.front) \/ Truthy(a.back)
  THEN AwaitCall("updateNoteFields",
                 [note |-> [id |-> noteId,
                            fields |->
                              FieldsObject(
                                {f \in {"Front", "Back"} :
                                   Truthy(IF f = "Front" THEN a.front
                                          ELSE a.back)},
                                [Front |-> a.front, Back |-> a.back])]],
                 "updateNoteFields")
  ELSE Finish(Returned(Str("updated")))

\* update-card: `if (front || back) { ... updateNoteFields ... }`
UpdateCardFieldsStep(a, noteId) ==
  IF Truthy(a.front) \/ Truthy(a.back)
  THEN AwaitCall("updateNoteFields",
                 [note |-> [id |-> noteId,
                            fields |->
                              FieldsObject(
                                {f \in {"Front", "Back"} :
                                   Truthy(IF f = "Front" THEN a.front
                                          ELSE a.back)},
                                [Front |-> a.front, Back |-> a.back])]],
                 "updateNoteFields")
  ELSE TagsStep(a, noteId)

\* update-cloze-card: `if (text || backExtra) { ... updateNoteFields ... }`
UpdateClozeFieldsStep(a, noteId) ==
  IF Truthy(a.text) \/ Truthy(a.backExtra)
  THEN IF Truthy(a.text) /\ ~HasClozeSyntax(a.text.v)
       THEN Finish(Thrown(ClozeSyntaxError))
       ELSE AwaitCall("updateNoteFields",
                 [note |-> [id |-> noteId,
                            fields |->
                              FieldsObject(
                                {f \in {"Text", "Back Extra"} :
                                   IF f = "Text" THEN Truthy(a.text)
                                   ELSE a.backExtra # Undefined},
                                [f \in {"Text", "Back Extra"} |->
                                   IF f = "Text" THEN a.text
                                   ELSE a.backExtra])]],
                 "updateNoteFields")
  ELSE TagsStep(a, noteId)

\* the locals of the CallToolRequestSchema handler when it is resumed with
\* the value of the call it awaited at `at`
ToolLocals(at, l, value) ==
  CASE at = "cardsToNotes" -> [l EXCEPT !.noteIdResponse = value]
    [] at = "notesInfo" -> [l EXCEPT !.noteInfo = value]
    [] OTHER -> l

\* variant: update-cloze-card does not compare the model name
ToolResume_NoModelCheck(name, a, at, l) ==
  CASE at = "cardsToNotes" ->
         IF Len(l.noteIdResponse.v) = 0
         THEN Finish(Thrown(NoNoteError(a.cardId.v)))
         ELSE IF name = "update-card"
              THEN UpdateCardFieldsStep(a, l.noteIdResponse.v[1])
              ELSE AwaitCall("notesInfo", [notes |-> <<l.noteIdResponse.v[1]>>],
                             "notesInfo")
    [] at = "notesInfo" ->
         IF Len(l.noteInfo.v) = 0
         THEN Finish(Thrown(TypeError("modelName")))
         ELSE UpdateClozeFieldsStep(a, l.noteIdResponse.v[1])
    [] at = "updateNoteFields" -> TagsStep(a, l.noteIdResponse.v[1])
    [] OTHER -> Finish(Returned(Str("done")))

\* CallToolRequestSchema handler resumed: l are the locals ToolLocals has
\* updated, and noteId is noteIdResponse[0]
ToolResume(name, a, at, l) ==
  CASE at = "cardsToNotes" ->
         IF Len(l.noteIdResponse.v) = 0
         THEN Finish(Thrown(NoNoteError(a.cardId.v)))
         ELSE IF name = "update-card"
              THEN UpdateCardFieldsStep(a, l.noteIdResponse.v[1])
              ELSE AwaitCall("notesInfo", [notes |-> <<l.noteIdResponse.v[1]>>],
                             "notesInfo")
    [] at = "notesInfo" ->
         IF Len(l.noteInfo.v) = 0
         THEN Finish(Thrown(TypeError("modelName")))
         ELSE IF l.noteInfo.v[1].modelName # "Cloze"
              THEN Finish(Thrown(NotClozeError))
              ELSE UpdateClozeFieldsStep(a, l.noteIdResponse.v[1])
    [] at = "updateNoteFields" -> TagsStep(a, l.noteIdResponse.v[1])
    [] OTHER -> Finish(Returned(Str("done")))

(* ------------------------------------------------------------------ *)
(* Card projection and the deck resource                               *)
(* ------------------------------------------------------------------ *)

ChunkSize == 5

Has(note, field) == field \in DOMAIN note.fields

\* variant: the default branch raises on an unknown note type
ProjectionRaises_UnknownModel(note) ==
  IF note.modelName = "Cloze"
  THEN ~Has(note, "Text") \/ ~Has(note, "Back Extra")
  ELSE IF note.modelName = "Basic"
  THEN ~Has(note, "Front") \/ ~Has(note, "Back")
  ELSE TRUE

\* does the callback of allNotes.map raise on this note
ProjectionRaises(note) ==
  IF note.modelName = "Cloze"
  THEN ~Has(note, "Text") \/ ~Has(note, "Back Extra")
  ELSE IF note.modelName = "Basic"
  THEN ~Has(note, "Front") \/ ~Has(note, "Back")
  ELSE FALSE

\* variant: the last card of the note is taken
FirstCard_LastCard(note) ==
  IF note.cards = <<>> THEN Undefined ELSE Num(note.cards[Len(note.cards)])

\* note.cards[0]
FirstCard(note) ==
  IF note.cards = <<>> THEN Undefined ELSE Num(note.cards[1])

\* variant: the Basic branch takes the sides the wrong way round
ProjectNote_BasicSwapped(note) ==
  IF note.modelName = "Cloze"
  THEN [cardId |-> FirstCard(note),
        Front |-> note.fields["Text"],
        Back |-> IF note.fields["Back Extra"] # ""
                 THEN note.fields["Back Extra"] ELSE "[Cloze deletion]",
        tags |-> note.tags]
  ELSE IF note.modelName = "Basic"
  THEN [cardId |-> FirstCard(note),
        Front |-> note.fields["Back"],
        Back |-> note.fields["Front"],
        tags |-> note.tags]
  ELSE [cardId |-> FirstCard(note),
        Front |-> "[Unknown note type]",
        Back |-> "[Unknown note type]",
        tags |-> note.tags]

\* the callback of allNotes.map, on a note it does not raise on
ProjectNote(note) ==
  IF note.modelName = "Cloze"
  THEN [cardId |-> FirstCard(note),
        Front |-> note.fields["Text"],
        Back |-> IF note.fields["Back Extra"] # ""
                 THEN note.fields["Back Extra"] ELSE "[Cloze deletion]",
        tags |-> note.tags]
  ELSE IF note.modelName = "Basic"
  THEN [cardId |-> FirstCard(note),
        Front |-> note.fields["Front"],
        Back |-> note.fields["Back"],
        tags |-> note.tags]
  ELSE [cardId |-> FirstCard(note),
        Front |-> "[Unknown note type]",
        Back |-> "[Unknown note type]",
        tags |-> note.tags]

\* cardInfo = allNotes.map(...)
CardInfo(allNotes) == [k \in 1..Len(allNotes) |-> ProjectNote(allNotes[k])]

\* uri.match(/^anki:\/\/deck\/(.+)$/)
UriMatches(uri) == Len(uri) > 12 /\ SubSeq(uri, 1, 12) = "anki://deck/"

MatchGroup(uri) == SubSeq(uri, 13, Len(uri))

RECURSIVE Malformed(_)
\* decodeURIComponent raises URIError on a % that starts no escape
Malformed(s) ==
  IF s = "" THEN FALSE
  ELSE IF SubSeq(s, 1, 1) = "%"
       THEN IF Len(s) >= 3 /\ SubSeq(s, 2, 3) = "20"
            THEN Malformed(SubSeq(s, 4, Len(s)))
            ELSE TRUE
       ELSE Malformed(SubSeq(s, 2, Len(s)))

RECURSIVE DecodeURIComponent(_)
DecodeURIComponent(s) ==
  IF s = "" THEN ""
  ELSE IF SubSeq(s, 1, 1) = "%"
       THEN " " \o DecodeURIComponent(SubSeq(s, 4, Len(s)))
       ELSE SubSeq(s, 1, 1) \o DecodeURIComponent(SubSeq(s, 2, Len(s)))

RECURSIVE EncodeURIComponent(_)
EncodeURIComponent(s) ==
  IF s = "" THEN ""
  ELSE (IF SubSeq(s, 1, 1) = " " THEN "%20" ELSE SubSeq(s, 1, 1))
         \o EncodeURIComponent(SubSeq(s, 2, Len(s)))

\* the local variables of a handler before it has assigned any
NoLocals ==
  [noteIdResponse |-> Undefined, noteInfo |-> Undefined, noteIds |-> Undefined,
   i |-> 0, allNotes |-> <<>>]

\* ReadResourceRequestSchema handler, from its entry to its first await
ReadEntry(uri) ==
  IF ~UriMatches(uri) THEN Finish(Thrown(ReadDeckError(InvalidUriError(uri))))
  ELSE IF Malformed(MatchGroup(uri))
       THEN Finish(Thrown(ReadDeckError(URIError)))
  ELSE AwaitCall("findNotes",
                 [query |-> "deck:" \o DecodeURIComponent(MatchGroup(uri))],
                 "findNotes")

\* the notesInfo call of the loop iteration at index i
ChunkCall(noteIds, i) ==
  AwaitCall("notesInfo", [notes |-> Slice(noteIds, i, i + ChunkSize)],
            "notesInfo")

\* the end of the handler, after the loop: projection and the result
ReadFinish(allNotes) ==
  IF \E k \in 1..Len(allNotes) : ProjectionRaises(allNotes[k])
  THEN Finish(Thrown(ReadDeckError(TypeError("value"))))
  ELSE Finish(Returned(Arr(CardInfo(allNotes))))

\* variant: the notes of a chunk replace the notes gathered so far
ReadLocals_Overwrite(at, l, value) ==
  IF at = "findNotes" THEN [l EXCEPT !.noteIds = value]
  ELSE [l EXCEPT !.allNotes = value.v, !.i = l.i + ChunkSize]

\* the locals of the ReadResourceRequestSchema handler when it is resumed
\* with the value of the call it awaited at `at`
ReadLocals(at, l, value) ==
  IF at = "findNotes" THEN [l EXCEPT !.noteIds = value]
  ELSE [l EXCEPT !.allNotes = l.allNotes \o value.v, !.i = l.i + ChunkSize]

\* ReadResourceRequestSchema handler resumed: l are the locals ReadLocals
\* has updated
ReadResume(at, l) ==
  IF at = "findNotes"
  THEN IF Len(l.noteIds.v) = 0 THEN Finish(Returned(Arr(<<>>)))
       ELSE ChunkCall(l.noteIds.v, 0)
  ELSE IF l.i < Len(l.noteIds.v) THEN ChunkCall(l.noteIds.v, l.i)
       ELSE ReadFinish(l.allNotes)

\* ListResourcesRequestSchema handler resumed with the deck names
ListResume(decks) ==
  Finish(Returned(Arr([k \in 1..Len(decks) |->
                         [uri |-> "anki://deck/" \o EncodeURIComponent(decks[k]),
                          name |-> decks[k]]])))

(* ------------------------------------------------------------------ *)
(* State                                                               *)
(* ------------------------------------------------------------------ *)

VARIABLES
  handler,  \* the handler that runs: "none", "tool", "list" or "read"
  tool,     \* name of the tool that was called
  args,     \* arguments of the tool call, or the uri of the resource
  pc,       \* "idle", the await the handler is suspended at, or "done"
  local,    \* local variables of the handler
  call,     \* the ankiRequest call of the operation: the running or last one
  calls,    \* log of the ankiRequest calls made, in order, with how each ended
  outcome   \* what the operation delivered to its caller

vars == <<handler, tool, args, pc, local, call, calls, outcome>>

Init ==
  /\ handler = "none"
  /\ tool = ""
  /\ args = <<>>
  /\ pc = "idle"
  /\ local = NoLocals
  /\ call = NoCall
  /\ calls = <<>>
  /\ outcome = NoOutcome

\* the entry of the log for a call that starts
Logged(c) ==
  [action |-> c.action, params |-> c.params, status |-> c.phase,
   value |-> c.value, error |-> c.error]

\* the log once the running call is in state c: its entry says whether the
\* call is pending, returned (with which value) or thrown (with which error)
Settled(log, c) ==
  [log EXCEPT ![Len(log)] =
     [@ EXCEPT !.status = IF c.phase \in {"returned", "thrown"}
                          THEN c.phase ELSE "pending",
               !.value = c.value,
               !.error = IF c.phase = "thrown" THEN c.error ELSE NoError]]

\* the handler carries out the end of a synchronous stretch
Do(d) ==
  /\ pc' = d.at
  /\ outcome' = d.outcome
  /\ IF d.do = "await"
     THEN /\ call' = StartCall(d.action, d.params, DefaultRetries, DefaultDelay)
          /\ calls' = Settled(Append(calls, Logged(call')), call')
     ELSE UNCHANGED <<call, calls>>

\* parameters for a call of ankiRequest on its own
SampleParams(action) ==
  CASE action = "notesInfo" -> [notes |-> <<2, 1>>]
    [] action = "cardsToNotes" -> [cards |-> <<1>>]
    [] OTHER -> <<>>

\* ankiRequest is called with explicit retries and delay
Request ==
  /\ pc = "idle"
  /\ call.phase = "none"
  /\ \E action \in Actions, retries \in 1..MaxRetries,
        delay \in {DefaultDelay, 250} :
       call' = StartCall(action, SampleParams(action), retries, delay)
  /\ calls' = Settled(Append(calls, Logged(call')), call')
  /\ UNCHANGED <<handler, tool, args, pc, local, outcome>>

\* the HTTP round trip of the attempt in flight completes
Respond ==
  /\ call.phase = "inflight"
  /\ \E resp \in Responses(call.action, call.params) :
       call' = OnResponse(call, resp)
  /\ calls' = Settled(calls, call')
  /\ UNCHANGED <<handler, tool, args, pc, local, outcome>>

\* the setTimeout of the backoff fires
TimerFires ==
  /\ call.phase = "backoff"
  /\ call' = OnTimer(call)
  /\ UNCHANGED <<handler, tool, args, pc, local, calls, outcome>>

\* a tools/call request arrives
CallTool ==
  /\ pc = "idle"
  /\ \E name \in Tools \cup {"delete-deck"} :
       \E a \in ArgsOf(name) :
         /\ handler' = "tool"
         /\ tool' = name
         /\ args' = a
         /\ Do(ToolEntry(name, a))
  /\ UNCHANGED local

\* a resources/list request arrives
ListResources ==
  /\ pc = "idle"
  /\ handler' = "list"
  /\ Do(AwaitCall("deckNames", <<>>, "deckNames"))
  /\ UNCHANGED <<tool, args, local>>

\* a resources/read request arrives
ReadResource ==
  /\ pc = "idle"
  /\ \E uri \in ResourceUris :
       /\ handler' = "read"
       /\ args' = uri
       /\ Do(ReadEntry(uri))
  /\ UNCHANGED <<tool, local>>

\* variant: an empty cardsToNotes answer is not checked, the handler goes on
\* with a note id that stands for noteIdResponse[0] of an empty list
ResumeTool_NoEmptyCheck ==
  /\ handler = "tool"
  /\ pc \notin {"idle", "done"}
  /\ call.phase \in {"returned", "thrown"}
  /\ IF call.phase = "thrown"
     THEN Do(Finish(Thrown(call.error))) /\ UNCHANGED local
     ELSE LET value == IF pc = "cardsToNotes" /\ call.value = Arr(<<>>)
                       THEN Arr(<<0>>) ELSE call.value
          IN /\ local' = ToolLocals(pc, local, value)
             /\ Do(ToolResume(tool, args, pc, ToolLocals(pc, local, value)))
  /\ UNCHANGED <<handler, tool, args>>

\* the awaited ankiRequest call of a tool handler has settled
ResumeTool ==
  /\ handler = "tool"
  /\ pc \notin {"idle", "done"}
  /\ call.phase \in {"returned", "thrown"}
  /\ IF call.phase = "thrown"
     THEN Do(Finish(Thrown(call.error))) /\ UNCHANGED local
     ELSE /\ local' = ToolLocals(pc, local, call.value)
          /\ Do(ToolResume(tool, args, pc, ToolLocals(pc, local, call.value)))
  /\ UNCHANGED <<handler, tool, args>>

\* variant: a failed deckNames call is answered with an empty list
ResumeList_EmptyOnFailure ==
  /\ handler = "list"
  /\ pc \notin {"idle", "done"}
  /\ call.phase \in {"returned", "thrown"}
  /\ IF call.phase = "thrown"
     THEN Do(ListResume(<<>>))
     ELSE Do(ListResume(call.value.v))
  /\ UNCHANGED <<handler, tool, args, local>>

\* the awaited deckNames call has settled
ResumeList ==
  /\ handler = "list"
  /\ pc \notin {"idle", "done"}
  /\ call.phase \in {"returned", "thrown"}
  /\ IF call.phase = "thrown"
     THEN Do(Finish(Thrown(call.error)))
     ELSE Do(ListResume(call.value.v))
  /\ UNCHANGED <<handler, tool, args, local>>

\* the awaited findNotes or notesInfo call of the read handler has settled
ResumeRead ==
  /\ handler = "read"
  /\ pc \notin {"idle", "done"}
  /\ call.phase \in {"returned", "thrown"}
  /\ IF call.phase = "thrown"
     THEN Do(Finish(Thrown(ReadDeckError(call.error)))) /\ UNCHANGED local
     ELSE /\ local' = ReadLocals(pc, local, call.value)
          /\ Do(ReadResume(pc, ReadLocals(pc, local, call.value)))
  /\ UNCHANGED <<handler, tool, args>>

NextRequest == Request \/ Respond \/ TimerFires

\* one call of ankiRequest with any retry count and delay
SpecRequest == Init /\ [][NextRequest]_vars

\* one call of ankiRequest where every HTTP round trip completes and every
\* timer that was set fires
SpecRequestFair ==
  SpecRequest /\ WF_vars(Respond) /\ WF_vars(TimerFires)

Next ==
  \/ CallTool
  \/ ListResources
  \/ ReadResource
  \/ Respond
  \/ TimerFires
  \/ ResumeTool
  \/ ResumeList
  \/ ResumeRead

\* one operation of the server
Spec == Init /\ [][Next]_vars

\* the field objects of raw notes: any of the four field names, each with
\* an empty or a non-empty value
FieldObjects ==
  UNION {[names -> {"", "v"}] :
           names \in SUBSET {"Text", "Back Extra", "Front", "Back"}}

\* raw note records: a model name, fields, no, one or two cards, tags
RawNotes ==
  [noteId : {1}, modelName : {"Basic", "Cloze", "Image Occlusion"},
   fields : FieldObjects, cards : {<<>>, <<7>>, <<7, 8>>},
   tags : {<<>>, <<"b", "a">>}]

\* the notes a read of a deck has gathered when its loop ends: one raw
\* note, or three notes of the backend
InitProject ==
  /\ handler = "read"
  /\ tool = ""
  /\ args = "anki://deck/Default"
  /\ pc = "project"
  /\ local \in {[NoLocals EXCEPT !.allNotes = notes] :
                  notes \in {<<note>> : note \in RawNotes}
                    \cup [1..3 -> {NoteOf(id) : id \in 0..4}]}
  /\ call = NoCall
  /\ calls = <<>>
  /\ outcome = NoOutcome

\* allNotes.map(...) and the result of the read
Project ==
  /\ handler = "read"
  /\ pc = "project"
  /\ Do(ReadFinish(local.allNotes))
  /\ UNCHANGED <<handler, tool, args, local>>

NextProject == Project

\* the projection of the notes of a deck, on any notes
SpecProject == InitProject /\ [][NextProject]_vars

(* ------------------------------------------------------------------ *)
(* Several operations at once                                          *)
(* ------------------------------------------------------------------ *)

\* Requests are served by async handlers on one thread: a handler runs up to
\* its next await, and handlers of other requests run in between.  Here
\* every variable holds one value per operation: an activation of a handler
\* and of ankiRequest has its own arguments and locals.
OpIds == 1..MaxOps

\* the tool calls that arrive: create-deck with a name
ToolCalls == {[name |-> "create-deck", arguments |-> [name |-> Str("d")]]}

\* what an attempt ends in here: a refused connection, or a result, which
\* for findNotes is a deck of two chunks and for notesInfo the records of
\* the ids asked for
OpResponses(action, params) ==
  {resp \in Responses(action, params) :
     \/ resp.kind = "error" /\ resp.code = "ECONNREFUSED"
     \/ /\ ResponseKind(resp) = "result"
        /\ action = "findNotes"
             => resp.body.result = Arr(DeckNoteIds(ChunkSize + 1, FALSE))
        /\ action = "notesInfo"
             => resp.body.result = Arr(Records(params.notes))}

InitOps ==
  /\ handler = [o \in OpIds |-> "none"]
  /\ tool = [o \in OpIds |-> ""]
  /\ args = [o \in OpIds |-> <<>>]
  /\ pc = [o \in OpIds |-> "idle"]
  /\ local = [o \in OpIds |-> NoLocals]
  /\ call = [o \in OpIds |-> NoCall]
  /\ calls = [o \in OpIds |-> <<>>]
  /\ outcome = [o \in OpIds |-> NoOutcome]

\* the handler of operation o carries out the end of a synchronous stretch
DoOf(o, d) ==
  /\ pc' = [pc EXCEPT ![o] = d.at]
  /\ outcome' = [outcome EXCEPT ![o] = d.outcome]
  /\ IF d.do = "await"
     THEN LET c == StartCall(d.action, d.params, DefaultRetries, DefaultDelay)
          IN /\ call' = [call EXCEPT ![o] = c]
             /\ calls' = [calls EXCEPT
                            ![o] = Settled(Append(calls[o], Logged(c)), c)]
     ELSE UNCHANGED <<call, calls>>

\* the HTTP round trip of the attempt operation o has in flight completes
RespondOf(o) ==
  /\ call[o].phase = "inflight"
  /\ \E resp \in OpResponses(call[o].action, call[o].params) :
       LET c == OnResponse(call[o], resp)
       IN /\ call' = [call EXCEPT ![o] = c]
          /\ calls' = [calls EXCEPT ![o] = Settled(calls[o], c)]
  /\ UNCHANGED <<handler, tool, args, pc, local, outcome>>

\* variant: the delay is one variable of the module, doubled for every call
\* that is running
TimerFiresOf_SharedDelay(o) ==
  /\ call[o].phase = "backoff"
  /\ call' = [p \in OpIds |->
               IF p = o THEN OnTimer(call[o])
               ELSE IF call[p].phase \in {"inflight", "backoff"}
               THEN [call[p] EXCEPT !.delay = 2 * call[p].delay]
               ELSE call[p]]
  /\ UNCHANGED <<handler, tool, args, pc, local, calls, outcome>>

\* the setTimeout of the backoff of operation o fires
TimerFiresOf(o) ==
  /\ call[o].phase = "backoff"
  /\ call' = [call EXCEPT ![o] = OnTimer(call[o])]
  /\ UNCHANGED <<handler, tool, args, pc, local, calls, outcome>>

\* a tools/call request arrives and becomes operation o
CallToolOf(o) ==
  /\ pc[o] = "idle"
  /\ \E request \in ToolCalls :
       /\ handler' = [handler EXCEPT ![o] = "tool"]
       /\ tool' = [tool EXCEPT ![o] = request.name]
       /\ args' = [args EXCEPT ![o] = request.arguments]
       /\ DoOf(o, ToolEntry(request.name, request.arguments))
  /\ UNCHANGED local

\* a resources/list request arrives and becomes operation o
ListResourcesOf(o) ==
  /\ pc[o] = "idle"
  /\ handler' = [handler EXCEPT ![o] = "list"]
  /\ DoOf(o, AwaitCall("deckNames", <<>>, "deckNames"))
  /\ UNCHANGED <<tool, args, local>>

\* a resources/read request for the Default deck arrives and becomes
\* operation o
ReadResourceOf(o) ==
  /\ pc[o] = "idle"
  /\ handler' = [handler EXCEPT ![o] = "read"]
  /\ args' = [args EXCEPT ![o] = "anki://deck/Default"]
  /\ DoOf(o, ReadEntry("anki://deck/Default"))
  /\ UNCHANGED <<tool, local>>

\* the awaited call of the tool handler of operation o has settled
ResumeToolOf(o) ==
  /\ handler[o] = "tool"
  /\ pc[o] \notin {"idle", "done"}
  /\ call[o].phase \in {"returned", "thrown"}
  /\ IF call[o].phase = "thrown"
     THEN DoOf(o, Finish(Thrown(call[o].error))) /\ UNCHANGED local
     ELSE LET l == ToolLocals(pc[o], local[o], call[o].value)
          IN /\ local' = [local EXCEPT ![o] = l]
             /\ DoOf(o, ToolResume(tool[o], args[o], pc[o], l))
  /\ UNCHANGED <<handler, tool, args>>

\* the awaited deckNames call of operation o has settled
ResumeListOf(o) ==
  /\ handler[o] = "list"
  /\ pc[o] \notin {"idle", "done"}
  /\ call[o].phase \in {"returned", "thrown"}
  /\ IF call[o].phase = "thrown"
     THEN DoOf(o, Finish(Thrown(call[o].error)))
     ELSE DoOf(o, ListResume(call[o].value.v))
  /\ UNCHANGED <<handler, tool, args, local>>

\* the awaited findNotes or notesInfo call of the read handler of operation
\* o has settled
ResumeReadOf(o) ==
  /\ handler[o] = "read"
  /\ pc[o] \notin {"idle", "done"}
  /\ call[o].phase \in {"returned", "thrown"}
  /\ IF call[o].phase = "thrown"
     THEN DoOf(o, Finish(Thrown(ReadDeckError(call[o].error))))
          /\ UNCHANGED local
     ELSE LET l == ReadLocals(pc[o], local[o], call[o].value)
          IN /\ local' = [local EXCEPT ![o] = l]
             /\ DoOf(o, ReadResume(pc[o], l))
  /\ UNCHANGED <<handler, tool, args>>

NextOps ==
  \E o \in OpIds :
    \/ CallToolOf(o)
    \/ ListResourcesOf(o)
    \/ ReadResourceOf(o)
    \/ RespondOf(o)
    \/ TimerFiresOf(o)
    \/ ResumeToolOf(o)
    \/ ResumeListOf(o)
    \/ ResumeReadOf(o)

\* several operations of the server, interleaved at their awaits
SpecOps == InitOps /\ [][NextOps]_vars

(* ------------------------------------------------------------------ *)
(* Properties of ankiRequest                                           *)
(* ------------------------------------------------------------------ *)

RECURSIVE Pow2(_)
Pow2(k) == IF k = 0 THEN 1 ELSE 2 * Pow2(k - 1)

\* the latest attempt of the call received an HTTP 200 response with a
\* parseable envelope
GotEnvelope ==
  /\ call.last.kind = "response"
  /\ call.last.status = 200
  /\ call.last.body.json = "object"

\* C1: if an attempt receives an HTTP 200 response whose error field is
\* non-null, the call fails with that backend message after exactly one HTTP
\* attempt, without any backoff delay.
C1_BackendErrorNotRetried ==
  (GotEnvelope /\ call.last.body.error # Null)
    => /\ call.phase = "thrown"
       /\ call.error = BackendError(call.last.body.error.v)
       /\ call.attempt = 1
       /\ call.waits = <<>>

\* the responses that are transport failures: connection error, non-200
\* status, unparseable 200 body
TransportKinds == {"connection", "status", "unparseable"}

\* the error a transport failure is reported with
TransportErrorOf(resp) ==
  IF resp.kind = "error" THEN SocketError(resp.code)
  ELSE IF resp.status # 200 THEN StatusError(resp.status, resp.body)
  ELSE ParseError(resp.body)

\* C2: when every attempt of a call ended in a transport failure, the wait
\* after attempt k is delay * 2^(k-1); the call waits again only while
\* attempts are left, and it fails exactly at attempt `retries`, with the
\* error of that attempt and retries - 1 waits behind it.
C2_TransportFailuresExhaustRetries ==
  (call.seen # {} /\ call.seen \subseteq TransportKinds
     /\ call.phase \in {"backoff", "thrown"})
    => /\ call.waits = [k \in 1..Len(call.waits) |-> call.base * Pow2(k - 1)]
       /\ call.phase = "backoff"
            => call.attempt < call.retries /\ Len(call.waits) = call.attempt
       /\ call.phase = "thrown"
            => /\ call.attempt = call.retries
               /\ Len(call.waits) = call.retries - 1
               /\ call.error = TransportErrorOf(call.last)

\* a default call failed after a connection error, a 500 response carrying
\* an error envelope and an unparseable 200 body
C2_Witness ==
  /\ call.phase = "thrown"
  /\ call.retries = 3
  /\ call.base = 1000
  /\ call.seen = TransportKinds
  /\ call.waits = <<1000, 2000>>
  /\ call.last.kind = "response"
  /\ call.last.status = 500
  /\ call.last.body.json = "object"

\* the latest attempt received HTTP 200 with a null error field and a null
\* or absent result
GotNullResult ==
  /\ GotEnvelope
  /\ call.last.body.error = Null
  /\ call.last.body.result \in {Null, Undefined}

\* C3: for an action other than updateNoteFields and replaceTags, an HTTP
\* 200 response with a null error and a null or absent result makes the call
\* fail at once with the null-result error: no retry, no backoff delay.
C3_NullResultNotRetried ==
  (GotNullResult /\ call.action \notin {"updateNoteFields", "replaceTags"})
    => /\ call.phase = "thrown"
       /\ call.error = NullResultError
       /\ Len(call.waits) < call.attempt

\* C4: an HTTP 200 response with a null error and a null or absent result
\* is a success with an empty payload exactly for updateNoteFields and
\* replaceTags; for every other action the attempt fails with the
\* null-result error.
C4_NullResultSuccessOnlyForWrites ==
  GotNullResult
    => IF call.action \in {"updateNoteFields", "replaceTags"}
       THEN call.phase = "returned" /\ call.value = EmptyObject
       ELSE call.phase # "returned" /\ call.error = NullResultError

\* replaceTags returned the empty payload on a null result
C4_Witness ==
  /\ GotNullResult
  /\ call.action = "replaceTags"
  /\ call.phase = "returned"

\* a createDeck attempt was rejected on a null result
C4_WitnessOther ==
  /\ GotNullResult
  /\ call.action = "createDeck"
  /\ call.error = NullResultError

\* C5: the call returns the result of the first attempt that receives HTTP
\* 200 with a null error and a non-null result, and issues no attempt after
\* it, also when earlier attempts failed at transport level.
C5_FirstGoodResultReturned ==
  (GotEnvelope /\ call.last.body.error = Null
     /\ call.last.body.result \notin {Null, Undefined})
    => /\ call.phase = "returned"
       /\ call.value = call.last.body.result

\* the third attempt returned a result after two transport failures
C5_Witness ==
  /\ call.phase = "returned"
  /\ call.attempt = 3
  /\ call.seen # {}
  /\ call.seen \subseteq TransportKinds
  /\ call.last.body.error = Null
  /\ call.value = call.last.body.result
  /\ call.value # EmptyObject

(* ------------------------------------------------------------------ *)
(* Properties of the operations                                        *)
(* ------------------------------------------------------------------ *)

\* a text carries a cloze marker pair: the opening marker {{c and the
\* closing marker }} both occur in it
HasMarkerPair(text) ==
  /\ \E i \in 1..(Len(text) - 2) : SubSeq(text, i, i + 2) = "{{c"
  /\ \E j \in 1..(Len(text) - 1) : SubSeq(text, j, j + 1) = "}}"

\* the arguments fail the declared input shape of the tool: a required
\* property is missing, a property has another type than declared, or the
\* deck name of create-deck is empty
FailsDeclaredShape(name, a) ==
  \/ \E f \in DOMAIN a :
       \/ f \in DeclaredRequired(name) /\ a[f] = Undefined
       \/ a[f] # Undefined /\ a[f].t # DeclaredType(f)
       \/ a[f].t = "array" /\ \E k \in 1..Len(a[f].v) : a[f].v[k].t # "string"
  \/ name = "create-deck" /\ a.name = Str("")

\* no call of the log writes to a note
NoWriteCall ==
  \A k \in 1..Len(calls) :
    calls[k].action \notin {"updateNoteFields", "replaceTags"}

\* no request went to the backend: no ankiRequest call was made, hence no POST
NoBackendRequest == calls = <<>> /\ call = NoCall

\* C6: update-cloze-card on a note whose model is not "Cloze" makes no
\* updateNoteFields and no replaceTags call, and once the lookup has reported
\* the model it fails with the not-a-cloze-card error, whatever text,
\* backExtra and tags were supplied.
C6_NonClozeNoteNotWritten ==
  (handler = "tool" /\ tool = "update-cloze-card")
    => /\ (local.noteIdResponse # Undefined
             /\ local.noteIdResponse.v # <<>>
             /\ NoteOf(local.noteIdResponse.v[1]).modelName # "Cloze")
            => NoWriteCall
       /\ (local.noteInfo # Undefined
             /\ local.noteInfo.v # <<>>
             /\ local.noteInfo.v[1].modelName # "Cloze")
            => /\ pc = "done"
               /\ outcome = Thrown(NotClozeError)
               /\ NoWriteCall

\* update-cloze-card with a valid text, a backExtra and tags was refused on
\* a Basic note
C6_Witness ==
  /\ tool = "update-cloze-card"
  /\ args.text = Str("{{c1::Paris}}")
  /\ args.backExtra = Str("f")
  /\ args.tags = Arr(<<Str("a"), Str("b")>>)
  /\ local.noteInfo # Undefined
  /\ local.noteInfo.v # <<>>
  /\ local.noteInfo.v[1].modelName = "Basic"
  /\ outcome = Thrown(NotClozeError)
  /\ Len(calls) = 2

\* C7: create-cloze-card with a text without a cloze marker pair fails
\* without any backend request; with a marker pair (and otherwise well-shaped
\* arguments) it makes exactly one ankiRequest call, addNote with model
\* "Cloze", and it reports success exactly when the backend accepted the
\* note.
C7_CreateClozeValidatesText ==
  (handler = "tool" /\ tool = "create-cloze-card" /\ args.text.t = "string")
    => IF ~HasMarkerPair(args.text.v)
       THEN pc = "done" /\ outcome.status = "error" /\ NoBackendRequest
       ELSE ~FailsDeclaredShape(tool, args)
              => /\ Len(calls) = 1
                 /\ calls[1].action = "addNote"
                 /\ calls[1].params.note.modelName = "Cloze"
                 /\ calls[1].params.note.fields.Text = args.text.v
                 /\ pc = "done"
                      => (outcome.status = "ok"
                            <=> calls[1].status = "returned")

\* create-cloze-card with {{c1::Paris}} succeeded with one addNote call
C7_Witness ==
  /\ tool = "create-cloze-card"
  /\ args.text = Str("{{c1::Paris}}")
  /\ pc = "done"
  /\ outcome.status = "ok"
  /\ Len(calls) = 1
  /\ calls[1].action = "addNote"

\* create-cloze-card with the text Paris failed before any request
C7_WitnessRejected ==
  /\ tool = "create-cloze-card"
  /\ args.text = Str("Paris")
  /\ ~FailsDeclaredShape(tool, args)
  /\ outcome = Thrown(ClozeSyntaxError)
  /\ NoBackendRequest

\* C8: for each of the five tools, arguments that fail the declared input
\* shape (wrong type, missing required property, empty deck name for
\* create-deck) make the operation fail with the invalid-arguments error and
\* without any backend request.
C8_InvalidArgumentsNeverSent ==
  (handler = "tool" /\ tool \in Tools /\ FailsDeclaredShape(tool, args))
    => /\ pc = "done"
       /\ outcome.status = "error"
       /\ outcome.error.e = "invalidArguments"
       /\ NoBackendRequest

\* create-deck with an empty name failed before any request
C8_Witness ==
  /\ tool = "create-deck"
  /\ args.name = Str("")
  /\ pc = "done"
  /\ outcome = Thrown(ValidationError({"name"}))
  /\ NoBackendRequest

\* C9: update-cloze-card with a text that contains no cloze marker pair
\* fails with zero backend requests, not even the cardsToNotes or notesInfo
\* lookups.
C9_UpdateClozeTextCheckedFirst ==
  (handler = "tool" /\ tool = "update-cloze-card" /\ args.text.t = "string"
     /\ ~HasMarkerPair(args.text.v))
    => /\ pc = "done"
       /\ outcome.status = "error"
       /\ NoBackendRequest

CeilDiv(n, d) == (n + d - 1) \div d

Min(a, b) == IF a < b THEN a ELSE b

\* ids 5(k-1)+1 .. min(5k, n) of a list of n note ids, in their order
BatchOf(ids, k) ==
  [j \in 1..(Min(5 * k, Len(ids)) - 5 * (k - 1)) |-> ids[5 * (k - 1) + j]]

\* every notesInfo call of the log that returned gave one record per
\* requested id, in order
OneRecordPerId ==
  \A k \in 2..Len(calls) :
    calls[k].status = "returned"
      => calls[k].value = Arr([j \in 1..Len(calls[k].params.notes) |->
                                 NoteOf(calls[k].params.notes[j])])

\* C10: reading a deck whose findNotes query returned n ids makes ceil(n/5)
\* notesInfo calls, the k-th with ids 5(k-1)+1 .. min(5k, n) in their
\* order, each made only after the previous call returned; when the backend
\* gave one record per requested id, the notes gathered are those of the n
\* ids in order, and the card list delivered has length n in that order.
C10_BatchedNotesInfo ==
  (handler = "read" /\ calls # <<>>)
    => /\ calls[1].action = "findNotes"
       /\ \A k \in 1..(Len(calls) - 1) : calls[k].status = "returned"
       /\ Len(calls) > 1
            => LET ids == calls[1].value.v IN
               /\ Len(calls) - 1 <= CeilDiv(Len(ids), 5)
               /\ \A k \in 1..(Len(calls) - 1) :
                    /\ calls[k + 1].action = "notesInfo"
                    /\ calls[k + 1].params.notes = BatchOf(ids, k)
       /\ (pc = "done" /\ calls[Len(calls)].status = "returned")
            => LET ids == calls[1].value.v IN
               /\ Len(calls) - 1 = CeilDiv(Len(ids), 5)
               /\ OneRecordPerId
                    => /\ local.allNotes = [k \in 1..Len(ids) |-> NoteOf(ids[k])]
                       /\ outcome.status = "ok"
                            => /\ Len(outcome.value.v) = Len(ids)
                               /\ \A k \in 1..Len(ids) :
                                    outcome.value.v[k].cardId
                                      = Num(NoteOf(ids[k]).cards[1])

\* a deck of 12 notes was read with batches of 5, 5 and 2 into 12 cards
C10_Witness ==
  /\ handler = "read"
  /\ pc = "done"
  /\ outcome.status = "ok"
  /\ Len(calls) = 4
  /\ Len(calls[1].value.v) = 12
  /\ Len(calls[2].params.notes) = 5
  /\ Len(calls[3].params.notes) = 5
  /\ Len(calls[4].params.notes) = 2
  /\ calls[4].params.notes = <<2, 1>>
  /\ Len(outcome.value.v) = 12

\* a deck without notes was read without any notesInfo call
C10_WitnessEmpty ==
  /\ handler = "read"
  /\ pc = "done"
  /\ outcome = Returned(Arr(<<>>))
  /\ Len(calls) = 1
  /\ calls[1].value = Arr(<<>>)

(* ------------------------------------------------------------------ *)
(* Properties of the card projection                                   *)
(* ------------------------------------------------------------------ *)

\* the notes that were projected, and the cards delivered
Notes == local.allNotes

Cards == outcome.value.v

\* a note has a field
HasField(note, name) == name \in DOMAIN note.fields

\* C11: a note with model "Cloze" is projected, without raising, to front =
\* its Text value and back = its "Back Extra" value when that is present and
\* non-empty, and back = "[Cloze deletion]" otherwise, also when the note has
\* no "Back Extra" field.
C11_ClozeProjection ==
  (pc = "done"
     /\ \A k \in 1..Len(Notes) :
          Notes[k].modelName = "Cloze" /\ HasField(Notes[k], "Text"))
    => /\ outcome.status = "ok"
       /\ \A k \in 1..Len(Notes) :
            /\ Cards[k].Front = Notes[k].fields["Text"]
            /\ Cards[k].Back =
                 IF HasField(Notes[k], "Back Extra")
                      /\ Notes[k].fields["Back Extra"] # ""
                 THEN Notes[k].fields["Back Extra"]
                 ELSE "[Cloze deletion]"

\* a Basic note with Front and Back, a Cloze note with Text and Back Extra
HasModelFields(note) ==
  \/ note.modelName = "Basic"
       /\ HasField(note, "Front") /\ HasField(note, "Back")
  \/ note.modelName = "Cloze"
       /\ HasField(note, "Text") /\ HasField(note, "Back Extra")

UnknownModel(note) == note.modelName \notin {"Basic", "Cloze"}

\* C12: a note whose model is neither "Basic" nor "Cloze" is projected to
\* front = back = "[Unknown note type]" and never raises: notes that are of
\* an unknown model or carry the fields of their model are listed in full,
\* one card per note.
C12_UnknownModelPlaceholder ==
  pc = "done"
    => /\ (\A k \in 1..Len(Notes) :
             UnknownModel(Notes[k]) \/ HasModelFields(Notes[k]))
            => outcome.status = "ok"
       /\ outcome.status = "ok"
            => /\ Len(Cards) = Len(Notes)
               /\ \A k \in 1..Len(Notes) :
                    UnknownModel(Notes[k])
                      => /\ Cards[k].Front = "[Unknown note type]"
                         /\ Cards[k].Back = "[Unknown note type]"

\* a Basic, a Cloze and an Image Occlusion note were listed as three cards
C12_Witness ==
  /\ pc = "done"
  /\ outcome.status = "ok"
  /\ Len(Notes) = 3
  /\ Notes[1].modelName = "Basic"
  /\ Notes[2].modelName = "Image Occlusion"
  /\ Notes[3].modelName = "Cloze"
  /\ Len(Cards) = 3
  /\ Cards[2].Front = "[Unknown note type]"

\* C13: a note with model "Basic" is projected to front and back equal to
\* its Front and Back values and to its own tag list, elements and order.
C13_BasicProjection ==
  pc = "done"
    => /\ (\A k \in 1..Len(Notes) :
             Notes[k].modelName = "Basic" /\ HasModelFields(Notes[k]))
            => outcome.status = "ok"
       /\ outcome.status = "ok"
            => \A k \in 1..Len(Notes) :
                 Notes[k].modelName = "Basic"
                   => /\ Cards[k].Front = Notes[k].fields["Front"]
                      /\ Cards[k].Back = Notes[k].fields["Back"]
                      /\ Cards[k].tags = Notes[k].tags

\* a Basic note with two tags and different sides was projected
C13_Witness ==
  /\ pc = "done"
  /\ outcome.status = "ok"
  /\ Len(Notes) = 1
  /\ Notes[1].modelName = "Basic"
  /\ Notes[1].fields["Front"] = "v"
  /\ Notes[1].fields["Back"] = ""
  /\ Notes[1].tags = <<"b", "a">>
  /\ Cards[1].Front = "v"
  /\ Cards[1].tags = <<"b", "a">>

\* C20: in every branch the projected cardId is the first of the note's
\* card ids and the tags are the note's tags unchanged; the list has one
\* card per note, however many cards a note owns.
C20_FirstCardAndTags ==
  (pc = "done" /\ outcome.status = "ok")
    => /\ Len(Cards) = Len(Notes)
       /\ \A k \in 1..Len(Notes) :
            /\ Cards[k].tags = Notes[k].tags
            /\ Cards[k].cardId =
                 IF Notes[k].cards = <<>> THEN Undefined
                 ELSE Num(Head(Notes[k].cards))

\* notes of the three branches, one of them with two cards, gave three cards
C20_Witness ==
  /\ pc = "done"
  /\ outcome.status = "ok"
  /\ Len(Notes) = 3
  /\ Notes[1].modelName = "Cloze"
  /\ Len(Notes[1].cards) = 2
  /\ Notes[2].modelName = "Basic"
  /\ Notes[3].modelName = "Image Occlusion"
  /\ Len(Cards) = 3
  /\ Cards[1].cardId = Num(Head(Notes[1].cards))

(* ------------------------------------------------------------------ *)
(* Properties of the write operations and of failures                  *)
(* ------------------------------------------------------------------ *)

\* the fields object of the k-th call, an addNote or an updateNoteFields
FieldsSent(k) == calls[k].params.note.fields

\* C14: create-cloze-card and update-cloze-card send the text under the key
\* "Text" and backExtra under the key "Back Extra", the field the listing
\* reads the back from.
C14_ClozeFieldKeys ==
  \A k \in 1..Len(calls) :
    /\ (tool = "create-cloze-card" /\ calls[k].action = "addNote")
         => /\ DOMAIN FieldsSent(k) = {"Text", "Back Extra"}
            /\ FieldsSent(k)["Text"] = args.text.v
            /\ FieldsSent(k)["Back Extra"] =
                 (IF args.backExtra = Undefined THEN ""
                  ELSE args.backExtra.v)
    /\ (tool = "update-cloze-card" /\ calls[k].action = "updateNoteFields")
         => /\ DOMAIN FieldsSent(k) \subseteq {"Text", "Back Extra"}
            /\ "Text" \in DOMAIN FieldsSent(k)
                 => FieldsSent(k)["Text"] = args.text.v
            /\ "Back Extra" \in DOMAIN FieldsSent(k)
                 => FieldsSent(k)["Back Extra"] = args.backExtra.v

\* the card-to-note lookup, the first call of an update, found no note
LookupFoundNothing ==
  /\ handler = "tool"
  /\ tool \in {"update-card", "update-cloze-card"}
  /\ calls # <<>>
  /\ calls[1].action = "cardsToNotes"
  /\ calls[1].status = "returned"
  /\ calls[1].value = Arr(<<>>)

\* C15: when cardsToNotes answers with an empty list, update-card and
\* update-cloze-card fail with the no-note-found error and make no further
\* ankiRequest call: the lookup, which returned on a 200 response, stays the
\* only call.
C15_EmptyLookupStops ==
  LookupFoundNothing
    => /\ Len(calls) = 1
       /\ call.action = "cardsToNotes"
       /\ call.phase = "returned"
       /\ call.last.body.result = Arr(<<>>)
       /\ pc \in {"cardsToNotes", "done"}
       /\ pc = "done" => outcome = Thrown(NoNoteError(args.cardId.v))

\* update-card with both sides and tags failed on an empty lookup
C15_Witness ==
  /\ LookupFoundNothing
  /\ tool = "update-card"
  /\ args.front = Str("f")
  /\ args.back = Str("b")
  /\ args.tags = Arr(<<Str("a"), Str("b")>>)
  /\ pc = "done"
  /\ outcome = Thrown(NoNoteError(1))
  /\ Len(calls) = 1

\* an input that is a non-empty string
NonEmptyString(x) == x.t = "string" /\ x.v # ""

\* the update was given a non-empty value to write into a field
FieldGiven ==
  IF tool = "update-card"
  THEN NonEmptyString(args.front) \/ NonEmptyString(args.back)
  ELSE NonEmptyString(args.text) \/ NonEmptyString(args.backExtra)

\* C16: in update-card and update-cloze-card a replaceTags call is made only
\* after every earlier call, the updateNoteFields call among them, has
\* returned, and directly after updateNoteFields when a field was given; no
\* call follows a failed updateNoteFields, and none follows replaceTags: a
\* failed replaceTags ends the operation with that error.
C16_FieldsBeforeTags ==
  (handler = "tool" /\ tool \in {"update-card", "update-cloze-card"})
    => \A k \in 1..Len(calls) :
         /\ calls[k].action = "replaceTags"
              => /\ k = Len(calls)
                 /\ \A j \in 1..(k - 1) : calls[j].status = "returned"
                 /\ FieldGiven
                      => calls[k - 1].action = "updateNoteFields"
                 /\ (pc = "done" /\ calls[k].status = "thrown")
                      => outcome = Thrown(calls[k].error)
         /\ (calls[k].action = "updateNoteFields"
               /\ calls[k].status = "thrown")
              => k = Len(calls)

\* update-card wrote the fields, then replaceTags failed and so did the
\* operation
C16_Witness ==
  /\ tool = "update-card"
  /\ pc = "done"
  /\ Len(calls) = 3
  /\ calls[2].action = "updateNoteFields"
  /\ calls[2].status = "returned"
  /\ calls[3].action = "replaceTags"
  /\ calls[3].status = "thrown"
  /\ outcome.status = "error"

\* C17: an operation reports success only if every ankiRequest call it made
\* returned; a call is made only after all earlier ones returned, so none
\* follows a failed call, and a failed call ends the operation with a failure.
C17_FirstFailureEndsOperation ==
  /\ \A k \in 1..(Len(calls) - 1) : calls[k].status = "returned"
  /\ (pc = "done" /\ outcome.status = "ok")
       => \A k \in 1..Len(calls) : calls[k].status = "returned"
  /\ (pc = "done" /\ calls # <<>> /\ calls[Len(calls)].status = "thrown")
       => outcome.status = "error"

\* a read failed on its second notesInfo chunk, after findNotes and the
\* first chunk had returned
C17_Witness ==
  /\ handler = "read"
  /\ pc = "done"
  /\ Len(calls) = 3
  /\ calls[2].status = "returned"
  /\ calls[3].action = "notesInfo"
  /\ calls[3].status = "thrown"
  /\ outcome.status = "error"

\* the last call of the operation failed, and all its attempts ended in
\* transport failures
ExhaustedOnTransport ==
  /\ pc = "done"
  /\ calls # <<>>
  /\ calls[Len(calls)].status = "thrown"
  /\ call.attempt = call.retries
  /\ call.seen # {}
  /\ call.seen \subseteq {"connection", "status", "unparseable"}

\* C18: when an operation fails because a call exhausted its attempts on
\* transport failures, the error delivered to the caller carries the hint
\* that Anki may not be running, for the tools and the deck list as for the
\* read of a deck.
C18_TransportFailureCarriesGuidance ==
  ExhaustedOnTransport
    => /\ outcome.status = "error"
       /\ outcome.error.e = "readDeck"

\* C19: ankiRequest returns only when the error field of the last response
\* is null; a 200 response with any non-null error, the empty string too,
\* makes the call fail.
C19_NonNullErrorFails ==
  /\ call.phase = "returned" => call.last.body.error = Null
  /\ (call.phase \in {"returned", "thrown"}
        /\ call.last.kind = "response"
        /\ call.last.status = 200
        /\ call.last.body.json = "object"
        /\ call.last.body.error # Null)
       => call.phase = "thrown"

\* C21: update-cloze-card with a text that has no cloze marker pair makes no
\* updateNoteFields and no replaceTags call, whatever backExtra and tags
\* were supplied with it.
C21_MarkerlessTextWritesNothing ==
  (handler = "tool" /\ tool = "update-cloze-card"
     /\ args.text.t = "string" /\ ~HasMarkerPair(args.text.v))
    => NoWriteCall

\* the calls of the log with the given action
CallsOf(action) == {k \in 1..Len(calls) : calls[k].action = action}

\* the field inputs of the update tool that ran, by the key they are written
\* under
FieldInputs ==
  IF tool = "update-card"
  THEN [Front |-> args.front, Back |-> args.back]
  ELSE [f \in {"Text", "Back Extra"} |->
          IF f = "Text" THEN args.text ELSE args.backExtra]

ProvidedFields == {f \in DOMAIN FieldInputs : FieldInputs[f] # Undefined}

\* C22: an update-card or update-cloze-card that succeeded made one
\* updateNoteFields call if and only if a field input was provided, with
\* exactly the provided fields, an empty string among them, and one
\* replaceTags call if and only if tags was provided, an empty list too.
C22_WritesIffProvided ==
  (handler = "tool" /\ tool \in {"update-card", "update-cloze-card"}
     /\ pc = "done" /\ outcome.status = "ok")
    => /\ Cardinality(CallsOf("updateNoteFields")) =
            (IF ProvidedFields # {} THEN 1 ELSE 0)
       /\ \A k \in CallsOf("updateNoteFields") :
            /\ DOMAIN FieldsSent(k) = ProvidedFields
            /\ \A f \in ProvidedFields : FieldsSent(k)[f] = FieldInputs[f].v
       /\ Cardinality(CallsOf("replaceTags")) =
            (IF args.tags # Undefined THEN 1 ELSE 0)

(* ------------------------------------------------------------------ *)
(* Properties of sequencing and termination                            *)
(* ------------------------------------------------------------------ *)

\* the calls of the log that have not settled
PendingCalls == {k \in 1..Len(calls) : calls[k].status = "pending"}

\* HTTP requests of the running call that were written and have not
\* completed: attempts issued less attempts that failed and were followed by
\* a backoff wait
RequestsInFlight ==
  IF call.phase \in {"inflight", "backoff"}
  THEN call.attempt - Len(call.waits)
  ELSE 0

\* C23: within one operation at most one HTTP request is in flight: a call
\* is made only after every earlier call of the operation returned, an
\* attempt after the first is issued only after the previous attempt failed
\* and one backoff wait per failed attempt was made, and during a backoff
\* wait no request is in flight.
C23_OneRequestInFlight ==
  /\ PendingCalls \subseteq {Len(calls)}
  /\ \A k \in 1..(Len(calls) - 1) : calls[k].status = "returned"
  /\ call.phase \in {"inflight", "backoff"}
       => /\ PendingCalls = {Len(calls)}
          /\ calls[Len(calls)].action = call.action
          /\ calls[Len(calls)].params = call.params
  /\ call.phase \notin {"inflight", "backoff"} => PendingCalls = {}
  /\ RequestsInFlight <= 1
  /\ call.phase = "inflight"
       => /\ RequestsInFlight = 1
          /\ call.attempt > 1 => call.error # NoError
  /\ call.phase = "backoff"
       => /\ RequestsInFlight = 0
          /\ call.error # NoError

\* the third notesInfo chunk of a read is at its third attempt, after two
\* waits
C23_Witness ==
  /\ handler = "read"
  /\ Len(calls) = 4
  /\ call.action = "notesInfo"
  /\ call.phase = "inflight"
  /\ call.attempt = 3
  /\ call.waits = <<1000, 2000>>
  /\ PendingCalls = {4}

\* HTTP attempts the running call has issued: one, and one more after each
\* backoff wait that has ended
AttemptsIssued ==
  IF call.phase = "none" THEN 0
  ELSE IF call.phase = "backoff" THEN Len(call.waits)
  ELSE Len(call.waits) + 1

\* C25: a call of ankiRequest never issues more than `retries` HTTP
\* attempts, and when every attempt completes and every backoff timer fires,
\* a call that was started returns a value or throws an error.
C25_BoundedAttemptsAndTermination ==
  /\ [](AttemptsIssued <= call.retries /\ call.attempt <= call.retries)
  /\ call.phase = "inflight" ~> call.phase \in {"returned", "thrown"}

\* a call used up all its attempts and threw
C25_Witness ==
  /\ call.phase = "thrown"
  /\ call.retries = MaxRetries
  /\ call.attempt = MaxRetries
  /\ AttemptsIssued = MaxRetries
  /\ Len(call.waits) = MaxRetries - 1

(* ------------------------------------------------------------------ *)
(* Properties of interleaved operations                                *)
(* ------------------------------------------------------------------ *)

\* the calls of operation o whose value its handler has taken: all but the
\* last, and the last once the handler has ended after it returned
Taken(o) ==
  IF pc[o] = "done" /\ calls[o] # <<>>
       /\ calls[o][Len(calls[o])].status = "returned"
  THEN Len(calls[o])
  ELSE Len(calls[o]) - 1

RECURSIVE NotesOfChunks(_, _)
\* the records of the notesInfo calls 2..m of a read, one list after the other
NotesOfChunks(log, m) ==
  IF m < 2 THEN <<>> ELSE NotesOfChunks(log, m - 1) \o log[m].value.v

\* attempt, delay and note list of operation o are those its own history
\* gives: the call began at attempt 1 with 1000 ms, each of its own waits
\* added one attempt and doubled the delay, and the notes are those of its
\* own chunks
OwnHistory(o) ==
  /\ call[o].phase # "none"
       => /\ call[o].base = 1000
          /\ call[o].attempt =
               (IF call[o].phase = "backoff" THEN Len(call[o].waits)
                ELSE Len(call[o].waits) + 1)
          /\ call[o].delay = 1000 * Pow2(call[o].attempt - 1)
          /\ \A k \in 1..Len(call[o].waits) :
               call[o].waits[k] = 1000 * Pow2(k - 1)
  /\ handler[o] = "read"
       => local[o].allNotes = NotesOfChunks(calls[o], Taken(o))
  /\ handler[o] # "read" => local[o].allNotes = <<>>

\* what the claim says a step of another operation leaves alone
Private(o) == <<call[o].attempt, call[o].delay, local[o].allNotes>>

\* C24: with operations interleaved at their awaits, every ankiRequest call
\* starts at attempt 1 with the delay 1000 and its attempt count and delay
\* follow from its own failures alone, the note list of a read holds the
\* notes of its own chunks, and no step changes the attempt count, the delay
\* or the note list of two operations.
C24_CallsAndNotesIsolated ==
  /\ [](\A o \in OpIds : OwnHistory(o))
  /\ [][\A o, p \in OpIds :
          (o # p /\ Private(o)' # Private(o)) => Private(p)' = Private(p)]_vars

\* operation 1 is at its third attempt while operation 2, a read that has
\* gathered its first chunk, is at the first attempt of its second chunk
C24_Witness ==
  /\ call[1].phase = "inflight"
  /\ call[1].attempt = 3
  /\ call[1].delay = 4000
  /\ handler[2] = "read"
  /\ Len(local[2].allNotes) = ChunkSize
  /\ call[2].phase = "inflight"
  /\ call[2].attempt = 1
  /\ call[2].delay = 1000

====
